---- MODULE Spec2Model ----
(***************************************************************************)
(* Model of src/utilities/generate_resyne_display_lut.py: the colour       *)
(* mapper (map_to_preview_rgb and its helpers), the grid enumeration       *)
(* (generate_lut), the .cube writer (write_cube_file) and the entry point  *)
(* (main).                                                                 *)
(*                                                                         *)
(* Real numbers are fixed-point integers: the real x is the integer        *)
(* x * Scale, and every product or quotient is rounded down to a multiple  *)
(* of 1/Scale.  All intermediate values stay below 2^31.                   *)
(***************************************************************************)
EXTENDS Integers, Sequences, FiniteSets, TLC

\* ------------------------------------------------------------------------
\* Bounds of the model
\* ------------------------------------------------------------------------

\* Largest grid size a run is given (LUT_SIZE is 33 in the program).
MaxSize == 3

\* Number of runs of the program that one behaviour holds.
MaxRuns == 2

\* The mapper's inputs are the multiples of 1/InputSteps in [-1/2, 3/2].
InputSteps == 4

\* ------------------------------------------------------------------------
\* Fixed-point arithmetic
\* ------------------------------------------------------------------------

Scale == 10 ^ 3

One == Scale

Max2(a, b) == IF a >= b THEN a ELSE b

Min2(a, b) == IF a <= b THEN a ELSE b

\* a * b and a / b of two fixed-point numbers.
FMul(a, b) == (a * b) \div Scale

FDiv(a, b) == (a * Scale) \div b

\* The decimal literal num/den of the source, e.g. 0.25 is Dec(25, 100).
Dec(num, den) == (num * Scale) \div den

\* A clamp that forgets the lower bound.
Clamp01NoLower(x) == Min2(x, One)

\* min(max(x, 0.0), 1.0)
Clamp01(x) == Min2(Max2(x, 0), One)

RECURSIVE SqrtSearch(_, _, _)
\* The largest r in lo..hi with r * r <= n (lo * lo <= n is given).
SqrtSearch(n, lo, hi) ==
    IF lo >= hi THEN lo
    ELSE LET mid == (lo + hi + 1) \div 2
         IN  IF mid * mid <= n THEN SqrtSearch(n, mid, hi)
             ELSE SqrtSearch(n, lo, mid - 1)

\* math.sqrt of a fixed-point number x >= 0.
Sqrt(x) == SqrtSearch(x * Scale, 0, Min2(x * Scale, 46340))

\* 10^(1/2), 10^(1/4), ..., 10^(1/1024) in fixed point.
Pow10Roots == <<3162, 1778, 1334, 1155, 1075, 1037, 1018, 1009, 1005, 1002>>

RECURSIVE Pow10Frac(_, _, _)
\* acc * 10^(frac / Scale) for 0 <= frac < Scale, by the binary digits of
\* frac / Scale, one root of ten for each digit that is set.
Pow10Frac(frac, k, acc) ==
    IF k > Len(Pow10Roots) THEN acc
    ELSE IF 2 * frac >= Scale
         THEN Pow10Frac(2 * frac - Scale, k + 1, FMul(acc, Pow10Roots[k]))
         ELSE Pow10Frac(2 * frac, k + 1, acc)

RECURSIVE Div10(_, _)
\* v / 10^k, rounded down.
Div10(v, k) == IF k = 0 \/ v = 0 THEN v ELSE Div10(v \div 10, k - 1)

\* math.pow(10.0, x) of a fixed-point exponent x.
Pow10(x) ==
    LET n == x \div Scale
        mantissa == Pow10Frac(x % Scale, 1, One)
    IN  IF n >= 0 THEN mantissa * (10 ^ n) ELSE Div10(mantissa, 0 - n)

\* ------------------------------------------------------------------------
\* Module constants
\* ------------------------------------------------------------------------

DB_MIN == -120

DB_MAX == 20

DB_RANGE == DB_MAX - DB_MIN

PHASE_OFFSET == Dec(5, 10)

PHASE_SCALE == Dec(5, 10)

MAX_AMPLITUDE == Pow10((DB_MAX * Scale) \div 20)

\* ------------------------------------------------------------------------
\* Colour mapper
\* ------------------------------------------------------------------------

denormalise_magnitude(value) ==
    LET clamped == Clamp01(value)
        db == clamped * DB_RANGE + DB_MIN * Scale
    IN  Pow10(db \div 20)

decode_cosine_component(encoded) ==
    FDiv(Clamp01(encoded) - PHASE_OFFSET, PHASE_SCALE)

\* A hue that rises with the frequency instead of falling.
hue_degrees_rising(frequency_norm) == frequency_norm * 280 + 20 * Scale

\* hue_degrees = (1.0 - frequency_norm) * 280.0 + 20.0
hue_degrees(frequency_norm) == (One - frequency_norm) * 280 + 20 * Scale

\* hue = (hue_degrees % 360.0) / 360.0
hue_of(degrees) == FDiv(degrees % (360 * Scale), 360 * Scale)

\* colorsys.hsv_to_rgb(h, s, v)
hsv_to_rgb(h, s, v) ==
    IF s = 0 THEN <<v, v, v>>
    ELSE LET h6 == h * 6
             i0 == IF h6 >= 0 THEN h6 \div Scale ELSE 0 - ((0 - h6) \div Scale)
             fr == h6 - i0 * Scale
             pp == FMul(v, One - s)
             q  == FMul(v, One - FMul(s, fr))
             t  == FMul(v, One - FMul(s, One - fr))
             i  == i0 % 6
         IN  CASE i = 0 -> <<v, t, pp>>
               [] i = 1 -> <<q, v, pp>>
               [] i = 2 -> <<pp, v, t>>
               [] i = 3 -> <<pp, q, v>>
               [] i = 4 -> <<t, pp, v>>
               [] i = 5 -> <<v, pp, q>>

\* The locals of one call of map_to_preview_rgb.  Line 41 computes
\* denormalise_frequency(frequency_norm) and discards the result: nothing
\* below reads it, and the hue is taken from the raw frequency_norm.
map_locals(magnitude_norm, frequency_norm, phase_cos_norm) ==
    LET magnitude == denormalise_magnitude(magnitude_norm)
        cos_phase == decode_cosine_component(phase_cos_norm)
        amplitude_ratio == Clamp01(FDiv(magnitude, MAX_AMPLITUDE))
        degrees == hue_degrees(frequency_norm)
        hue == hue_of(degrees)
        saturation == Clamp01(Dec(25, 100) + FMul(amplitude_ratio, Dec(6, 10)))
        phase_weight == Dec(55, 100) + FMul(Dec(45, 100), cos_phase)
        value == Clamp01(FMul(Sqrt(amplitude_ratio), phase_weight))
        rgb == hsv_to_rgb(hue, saturation, value)
    IN  [hue_degrees |-> degrees,
         hue |-> hue,
         saturation |-> saturation,
         value |-> value,
         rgb |-> <<Clamp01(rgb[1]), Clamp01(rgb[2]), Clamp01(rgb[3])>>]

map_to_preview_rgb(magnitude_norm, frequency_norm, phase_cos_norm) ==
    map_locals(magnitude_norm, frequency_norm, phase_cos_norm).rgb

\* ------------------------------------------------------------------------
\* State
\* ------------------------------------------------------------------------

VARIABLES
    pc,            \* where the run is: idle, mkdir, gen, open, write, done, failed
    entry,         \* how the run was started: main, or write_cube_file directly
    size,          \* the size argument of write_cube_file
    b, g, r,       \* the loop variables of generate_lut
    samples,       \* the list generate_lut builds
    isOpen,        \* the stream of write_cube_file is open
    opens,         \* how often this run has opened the file
    written,       \* the number of stream.write calls of this run that returned
    dirExists,     \* the directory assets/luts exists
    fileExists,    \* the output file exists
    file,          \* the lines of the output file
    error,         \* the exception that ended the run, or none
    atStart,       \* the output file as the run found it
    runs,          \* the number of runs started
    firstOutput,   \* per size: the first file a completed run has written
    args,          \* the arguments of a call of map_to_preview_rgb
    mpc,           \* that call: unused, called, returned
    result,        \* the locals of the call after it returned
    prev,          \* the frequency and the hue of the call before it
    nextFreq       \* the frequency_norm of the call after it

progVars == <<pc, entry, size, b, g, r, samples, isOpen, opens, written,
              dirExists, fileExists, file, error, atStart, runs, firstOutput>>

mapVars == <<args, mpc, result, prev, nextFreq>>

vars == <<progVars, mapVars>>

\* The sizes a direct call of write_cube_file is given.
Sizes == (0 - 1) .. MaxSize

\* main passes no size, so the writer runs with the default LUT_SIZE; the
\* model runs main with each size of 2..MaxSize as that default.
DefaultSizes == 2 .. MaxSize

Cube(n) == n * n * n

\* ------------------------------------------------------------------------
\* generate_lut
\* ------------------------------------------------------------------------

\* A range that runs one step too far.
InRangeInclusive(i, n) == i <= n

\* for i in range(n): the loop body runs for i
InRange(i, n) == i < n

\* i / (size - 1), rounded to the nearest multiple of 1/Scale.
NormCoord(i, n) == (2 * i * Scale + (n - 1)) \div (2 * (n - 1))

\* The sample with the magnitude and the phase axes exchanged.
GridSampleSwapped(n, bb, gg, rr) ==
    map_to_preview_rgb(NormCoord(bb, n), NormCoord(gg, n), NormCoord(rr, n))

\* The sample appended in the loop body for the loop variables bb, gg, rr.
GridSample(n, bb, gg, rr) ==
    map_to_preview_rgb(NormCoord(rr, n), NormCoord(gg, n), NormCoord(bb, n))

\* One pass of the innermost loop body: a sample is appended and the three
\* nested loops advance.
GenAppend ==
    /\ pc = "gen"
    /\ InRange(b, size)
    /\ size - 1 # 0
    /\ samples' = Append(samples, GridSample(size, b, g, r))
    /\ IF InRange(r + 1, size)
       THEN r' = r + 1 /\ UNCHANGED <<g, b>>
       ELSE /\ r' = 0
            /\ IF InRange(g + 1, size)
               THEN g' = g + 1 /\ UNCHANGED b
               ELSE g' = 0 /\ b' = b + 1
    /\ UNCHANGED <<pc, entry, size, isOpen, opens, written, dirExists,
                   fileExists, file, error, atStart, runs, firstOutput>>
    /\ UNCHANGED mapVars

\* b / (size - 1) with size = 1 raises ZeroDivisionError, which leaves
\* generate_lut, write_cube_file and the caller.
GenZeroDivision ==
    /\ pc = "gen"
    /\ InRange(b, size)
    /\ size - 1 = 0
    /\ pc' = "failed"
    /\ error' = "ZeroDivisionError"
    /\ UNCHANGED <<entry, size, b, g, r, samples, isOpen, opens, written,
                   dirExists, fileExists, file, atStart, runs, firstOutput>>
    /\ UNCHANGED mapVars

\* The outer loop is over: generate_lut returns samples.
GenReturn ==
    /\ pc = "gen"
    /\ ~InRange(b, size)
    /\ pc' = "open"
    /\ UNCHANGED <<entry, size, b, g, r, samples, isOpen, opens, written,
                   dirExists, fileExists, file, error, atStart, runs,
                   firstOutput>>
    /\ UNCHANGED mapVars

\* ------------------------------------------------------------------------
\* write_cube_file
\* ------------------------------------------------------------------------

\* f"{x:.6f}": x as a count of millionths.
Format6(x) == x * ((10 ^ 6) \div Scale)

DataLine(sample) ==
    <<"", Format6(sample[1]), Format6(sample[2]), Format6(sample[3])>>

\* A size line that holds the number of samples instead of the size.
SizeLineCount(n) == <<"LUT_3D_SIZE", Cube(n)>>

\* f"LUT_3D_SIZE {size}\n"
SizeLine(n) == <<"LUT_3D_SIZE", n>>

\* The four header lines, in the order of the four writes.
HeaderLines(n) ==
    << <<"TITLE \"ReSyne Display (Magnitude/LogFreq/PhaseCos)\"">>,
       SizeLine(n),
       <<"DOMAIN_MIN 0.0 0.0 0.0">>,
       <<"DOMAIN_MAX 1.0 1.0 1.0">> >>

\* The line of the k-th stream.write of a run, k = 1, 2, ...
LineAt(k) ==
    IF k <= Len(HeaderLines(size)) THEN HeaderLines(size)[k]
    ELSE DataLine(samples[k - Len(HeaderLines(size))])

TotalWrites == Len(HeaderLines(size)) + Len(samples)

\* The writer opens the file before it generates the samples.
write_cube_file_open_first(n) ==
    /\ pc' = "gen"
    /\ size' = n
    /\ b' = 0 /\ g' = 0 /\ r' = 0
    /\ samples' = <<>>
    /\ isOpen' = TRUE
    /\ opens' = 1
    /\ written' = 0
    /\ fileExists' = TRUE
    /\ file' = <<>>

\* write_cube_file(path, n) is entered: generate_lut(n) starts.
write_cube_file(n) ==
    /\ pc' = "gen"
    /\ size' = n
    /\ b' = 0 /\ g' = 0 /\ r' = 0
    /\ samples' = <<>>
    /\ isOpen' = FALSE
    /\ opens' = 0
    /\ written' = 0
    /\ UNCHANGED <<fileExists, file>>

\* An open in append mode.
OpenAppend ==
    /\ pc = "open"
    /\ dirExists
    /\ pc' = "write"
    /\ isOpen' = TRUE
    /\ opens' = opens + 1
    /\ fileExists' = TRUE
    /\ UNCHANGED file
    /\ UNCHANGED <<entry, size, b, g, r, samples, written, dirExists, error,
                   atStart, runs, firstOutput>>
    /\ UNCHANGED mapVars

\* path.open("w") succeeds: the file is created or truncated.
OpenOk ==
    /\ pc = "open"
    /\ dirExists
    /\ pc' = "write"
    /\ isOpen' = TRUE
    /\ opens' = opens + 1
    /\ fileExists' = TRUE
    /\ file' = <<>>
    /\ UNCHANGED <<entry, size, b, g, r, samples, written, dirExists, error,
                   atStart, runs, firstOutput>>
    /\ UNCHANGED mapVars

\* path.open("w") raises OSError (no directory, no permission).
OpenFail ==
    /\ pc = "open"
    /\ pc' = "failed"
    /\ error' = "open"
    /\ UNCHANGED <<entry, size, b, g, r, samples, isOpen, opens, written,
                   dirExists, fileExists, file, atStart, runs, firstOutput>>
    /\ UNCHANGED mapVars

\* One stream.write returns: its line is in the file.
WriteLine ==
    /\ pc = "write"
    /\ written < TotalWrites
    /\ file' = Append(file, LineAt(written + 1))
    /\ written' = written + 1
    /\ UNCHANGED <<pc, entry, size, b, g, r, samples, isOpen, opens,
                   dirExists, fileExists, error, atStart, runs, firstOutput>>
    /\ UNCHANGED mapVars

\* A failed write after which the stream stays open.
WriteFailLeak ==
    /\ pc = "write"
    /\ written < TotalWrites
    /\ pc' = "failed"
    /\ error' = "write"
    /\ UNCHANGED <<entry, size, b, g, r, samples, isOpen, opens, written,
                   dirExists, fileExists, file, atStart, runs, firstOutput>>
    /\ UNCHANGED mapVars

\* A failed write after which the writer carries on with the next write.
WriteFailRetry ==
    /\ pc = "write"
    /\ written < TotalWrites
    /\ error = "none"
    /\ error' = "write"
    /\ UNCHANGED <<pc, entry, size, b, g, r, samples, isOpen, opens, written,
                   dirExists, fileExists, file, atStart, runs, firstOutput>>
    /\ UNCHANGED mapVars

\* One stream.write raises OSError: the with statement closes the stream
\* and the exception leaves write_cube_file and the caller.
WriteFail ==
    /\ pc = "write"
    /\ written < TotalWrites
    /\ pc' = "failed"
    /\ error' = "write"
    /\ isOpen' = FALSE
    /\ UNCHANGED <<entry, size, b, g, r, samples, opens, written, dirExists,
                   fileExists, file, atStart, runs, firstOutput>>
    /\ UNCHANGED mapVars

\* The with block is left after the last write: the stream is closed and
\* write_cube_file returns.
WriteClose ==
    /\ pc = "write"
    /\ written = TotalWrites
    /\ pc' = "done"
    /\ isOpen' = FALSE
    /\ firstOutput' =
           IF firstOutput[size].run = 0
           THEN [firstOutput EXCEPT
                    ![size] = [run |-> runs, start |-> atStart, content |-> file]]
           ELSE firstOutput
    /\ UNCHANGED <<entry, size, b, g, r, samples, opens, written, dirExists,
                   fileExists, file, error, atStart, runs>>
    /\ UNCHANGED mapVars

\* ------------------------------------------------------------------------
\* main and the start of a run
\* ------------------------------------------------------------------------

\* The program is started: main is about to create the directory.
MainStart ==
    /\ pc = "idle"
    /\ \E n \in DefaultSizes : size' = n
    /\ pc' = "mkdir"
    /\ entry' = "main"
    /\ runs' = runs + 1
    /\ error' = "none"
    /\ atStart' = [exists |-> fileExists, content |-> file]
    /\ b' = 0 /\ g' = 0 /\ r' = 0
    /\ samples' = <<>>
    /\ isOpen' = FALSE
    /\ opens' = 0
    /\ written' = 0
    /\ UNCHANGED <<dirExists, fileExists, file, firstOutput>>
    /\ UNCHANGED mapVars

\* output.parent.mkdir(parents=True, exist_ok=True) returns, whether the
\* directory existed or not, and main calls write_cube_file(output).
MkdirOk ==
    /\ pc = "mkdir"
    /\ dirExists' = TRUE
    /\ write_cube_file(size)
    /\ UNCHANGED <<entry, error, atStart, runs, firstOutput>>
    /\ UNCHANGED mapVars

\* mkdir raises OSError: the directory is absent and cannot be created.
MkdirFail ==
    /\ pc = "mkdir"
    /\ ~dirExists
    /\ pc' = "failed"
    /\ error' = "mkdir"
    /\ UNCHANGED <<entry, size, b, g, r, samples, isOpen, opens, written,
                   dirExists, fileExists, file, atStart, runs, firstOutput>>
    /\ UNCHANGED mapVars

\* write_cube_file(path, n) is called directly, with any size.
CallWrite ==
    /\ pc = "idle"
    /\ \E n \in Sizes : write_cube_file(n)
    /\ entry' = "write_cube_file"
    /\ runs' = runs + 1
    /\ error' = "none"
    /\ atStart' = [exists |-> fileExists, content |-> file]
    /\ UNCHANGED <<dirExists, firstOutput>>
    /\ UNCHANGED mapVars

\* ------------------------------------------------------------------------
\* The program
\* ------------------------------------------------------------------------

\* No run has completed yet.
NoOutput ==
    [n \in Sizes |->
        [run |-> 0, start |-> [exists |-> FALSE, content |-> <<>>],
         content |-> <<>>]]

\* A file another program left where the output goes.
StaleFile == << <<"LUT_3D_SIZE", 0>>, <<"", 0, 0, 0>> >>

MapUnused ==
    /\ args = <<0, 0, 0>>
    /\ mpc = "unused"
    /\ result = <<>>
    /\ prev = <<>>
    /\ nextFreq = 0

Init ==
    /\ pc = "idle"
    /\ entry = "none"
    /\ size = 0
    /\ b = 0 /\ g = 0 /\ r = 0
    /\ samples = <<>>
    /\ isOpen = FALSE
    /\ opens = 0
    /\ written = 0
    /\ \/ dirExists = FALSE /\ fileExists = FALSE /\ file = <<>>
       \/ dirExists = TRUE /\ fileExists = FALSE /\ file = <<>>
       \/ dirExists = TRUE /\ fileExists = TRUE /\ file = StaleFile
    /\ error = "none"
    /\ atStart = [exists |-> fileExists, content |-> file]
    /\ runs = 0
    /\ firstOutput = NoOutput
    /\ MapUnused

Next ==
    \/ MainStart
    \/ MkdirOk
    \/ MkdirFail
    \/ CallWrite
    \/ GenAppend
    \/ GenZeroDivision
    \/ GenReturn
    \/ OpenOk
    \/ OpenFail
    \/ WriteLine
    \/ WriteFail
    \/ WriteClose

Spec == Init /\ [][Next]_vars

\* The run is over, by a return or by an exception, and the program can be
\* run again: the directory and the file stay as the run left them.
Restart ==
    /\ pc \in {"done", "failed"}
    /\ runs < MaxRuns
    /\ pc' = "idle"
    /\ entry' = "none"
    /\ size' = 0
    /\ b' = 0 /\ g' = 0 /\ r' = 0
    /\ samples' = <<>>
    /\ opens' = 0
    /\ written' = 0
    /\ error' = "none"
    /\ atStart' = [exists |-> fileExists, content |-> file]
    /\ UNCHANGED <<isOpen, dirExists, fileExists, file, runs, firstOutput>>
    /\ UNCHANGED mapVars

NextRerun ==
    \/ Next
    \/ Restart

\* One run of the program after the other, up to MaxRuns runs.
SpecRerun == Init /\ [][NextRerun]_vars

\* ------------------------------------------------------------------------
\* The colour mapper on its own: calls of map_to_preview_rgb
\* ------------------------------------------------------------------------

\* The arguments tried: the multiples of 1/InputSteps from -1/2 to 3/2,
\* the values -0.5 and 1.5, and every coordinate generate_lut passes for a
\* size of 2..MaxSize.
Inputs ==
    {(k * Scale) \div InputSteps :
        k \in (0 - (InputSteps \div 2)) .. (InputSteps + InputSteps \div 2)}
    \cup {0 - Dec(5, 10), Dec(15, 10)}
    \cup UNION {{NormCoord(i, n) : i \in 0 .. (n - 1)} : n \in 2 .. MaxSize}

ProgramIdle ==
    /\ pc = "idle"
    /\ entry = "none"
    /\ size = 0
    /\ b = 0 /\ g = 0 /\ r = 0
    /\ samples = <<>>
    /\ isOpen = FALSE
    /\ opens = 0
    /\ written = 0
    /\ dirExists = FALSE /\ fileExists = FALSE /\ file = <<>>
    /\ error = "none"
    /\ atStart = [exists |-> FALSE, content |-> <<>>]
    /\ runs = 0
    /\ firstOutput = NoOutput

InitMap ==
    /\ ProgramIdle
    /\ args \in Inputs \X Inputs \X Inputs
    /\ mpc = "called"
    /\ result = <<>>
    /\ prev = <<>>
    /\ nextFreq \in Inputs

\* map_to_preview_rgb(args) runs and returns.
MapReturn ==
    /\ mpc = "called"
    /\ mpc' = "returned"
    /\ result' = <<map_locals(args[1], args[2], args[3])>>
    /\ UNCHANGED <<args, prev, nextFreq>>
    /\ UNCHANGED progVars

\* A second call, with another frequency_norm.
MapCall ==
    /\ mpc = "returned"
    /\ prev = <<>>
    /\ mpc' = "called"
    /\ args' = <<args[1], nextFreq, args[3]>>
    /\ prev' = <<[frequency_norm |-> args[2],
                  hue_degrees |-> result[1].hue_degrees]>>
    /\ result' = <<>>
    /\ UNCHANGED nextFreq
    /\ UNCHANGED progVars

NextMap ==
    \/ MapReturn
    \/ MapCall

SpecMap == InitMap /\ [][NextMap]_vars

\* ------------------------------------------------------------------------
\* Properties
\* ------------------------------------------------------------------------

\* The sample of index i (from 0) of a grid of size n, by the index alone:
\* r = i % n, g = (i // n) % n, b = i // n^2.
SampleByIndex(n, i) ==
    map_to_preview_rgb(NormCoord(i % n, n),
                       NormCoord((i \div n) % n, n),
                       NormCoord(i \div (n * n), n))

LutByIndex ==
    [n \in 2 .. MaxSize |-> [i \in 1 .. Cube(n) |-> SampleByIndex(n, i - 1)]]

\* generate_lut has returned in this run.
LutReturned == pc \in {"open", "write", "done"} \/ error \in {"open", "write"}

\* C1: for a size >= 2 the samples generate_lut has appended so far are the
\* samples of the indexes 0, 1, 2, ... with r = i % size, g = (i // size) %
\* size, b = i // size^2; once it has returned there are size^3 of them, the
\* first is map_to_preview_rgb(0, 0, 0) and the last map_to_preview_rgb(1, 1, 1).
C1_EnumerationOrder ==
    (size >= 2 /\ pc # "mkdir") =>
        /\ Len(samples) <= Cube(size)
        /\ samples = [i \in 1 .. Len(samples) |-> LutByIndex[size][i]]
        /\ LutReturned =>
              /\ Len(samples) = Cube(size)
              /\ samples[1] = map_to_preview_rgb(0, 0, 0)
              /\ samples[Cube(size)] = map_to_preview_rgb(One, One, One)

C1_Witness ==
    /\ pc = "open"
    /\ size = MaxSize
    /\ Len(samples) = Cube(MaxSize)
    /\ samples[MaxSize] # samples[1 + (MaxSize - 1) * MaxSize * MaxSize]

\* What the claim C2 says the file of a run with this size and these
\* samples holds.
CubeText ==
    << <<"TITLE \"ReSyne Display (Magnitude/LogFreq/PhaseCos)\"">>,
       <<"LUT_3D_SIZE", size>>,
       <<"DOMAIN_MIN 0.0 0.0 0.0">>,
       <<"DOMAIN_MAX 1.0 1.0 1.0">> >>
    \o [k \in 1 .. Len(samples) |->
           <<"", Format6(samples[k][1]), Format6(samples[k][2]),
             Format6(samples[k][3])>>]

\* C2: for a size >= 2 the file holds, while it is written, the first
\* `written` lines of: the TITLE line, LUT_3D_SIZE with the size the samples
\* were generated with, DOMAIN_MIN, DOMAIN_MAX, then one line per sample in
\* generation order; after a successful write it holds all 4 + size^3 lines.
C2_FileLayout ==
    (size >= 2 /\ pc \in {"write", "done"}) =>
        /\ Len(samples) = Cube(size)
        /\ written <= 4 + Cube(size)
        /\ file = SubSeq(CubeText, 1, written)
        /\ pc = "done" => Len(file) = 4 + Cube(size)

C2_Witness ==
    /\ pc = "done"
    /\ size = MaxSize
    /\ Len(file) = 4 + Cube(MaxSize)
    /\ file[5] # file[4 + Cube(MaxSize)]

InUnit(x) == 0 <= x /\ x <= One

\* C3: whatever the arguments, in or out of [0, 1], each channel
\* map_to_preview_rgb returns is within [0, 1].
C3_ChannelsInUnit ==
    mpc = "returned" => \A c \in 1 .. 3 : InUnit(result[1].rgb[c])

C3_Witness ==
    /\ mpc = "returned"
    /\ args[1] > One
    /\ args[2] < 0
    /\ args[3] > One
    /\ \E c \in 1 .. 3 : result[1].rgb[c] = One
    /\ \E c \in 1 .. 3 : result[1].rgb[c] < One

\* C4: map_to_preview_rgb(m, f, p) equals map_to_preview_rgb of the three
\* arguments clamped into [0, 1].
C4_ClampedArguments ==
    mpc = "returned" =>
        result[1].rgb = map_to_preview_rgb(Clamp01(args[1]), Clamp01(args[2]),
                                           Clamp01(args[3]))

\* C5: a run that completes leaves the file that the first completed run
\* with the same size left, whatever the file was when the run started.
C5_Deterministic ==
    pc = "done" => file = firstOutput[size].content

C5_Witness ==
    /\ pc = "done"
    /\ size >= 2
    /\ firstOutput[size].run > 0
    /\ firstOutput[size].run < runs
    /\ firstOutput[size].start # atStart

C6_State ==
    /\ opens <= 1
    /\ isOpen => (pc = "write" /\ opens = 1)
    /\ pc \in {"done", "failed"} => ~isOpen

C6_Step ==
    /\ (file' # file \/ written' # written) => isOpen'
    /\ pc \in {"done", "failed"} =>
          (file' = file /\ fileExists' = fileExists /\ ~isOpen' /\ opens' = opens)

\* C6: a run opens the file at most once; the stream is open only while the
\* writes run and is closed when write_cube_file has returned or raised; a
\* step that changes the file happens while the stream is open.
C6_ScopedSession == [](C6_State) /\ [][C6_Step]_vars

C6_Witness ==
    /\ error = "write"
    /\ written > 4
    /\ opens = 1
    /\ ~isOpen

C7_State ==
    /\ (entry = "main" /\ pc \in {"gen", "open", "write", "done"}) => dirExists
    /\ error # "none" => pc = "failed"
    /\ error = "mkdir" =>
          /\ entry = "main"
          /\ ~dirExists
          /\ opens = 0
          /\ samples = <<>>
          /\ file = atStart.content /\ fileExists = atStart.exists
    /\ error = "open" =>
          /\ opens = 0
          /\ file = atStart.content /\ fileExists = atStart.exists
    /\ error = "write" =>
          /\ fileExists
          /\ written < TotalWrites
          /\ Len(file) = written

C7_Step == error # "none" => UNCHANGED vars

\* C7: main creates the directory before the writer runs; a failed mkdir,
\* open or write ends the run: nothing is retried, no line is written after
\* it, and the lines already written stay in the file.
C7_FailuresAreFatal == [](C7_State) /\ [][C7_Step]_vars

C7_Witness ==
    /\ entry = "main"
    /\ error = "write"
    /\ written > 4
    /\ Len(file) = written

\* C8: for a frequency_norm in [0, 1] the hue in degrees is within
\* [20, 300], the modulo leaves it as it is, it is 300 for 0 and 20 for 1,
\* it is smaller than the hue of any smaller frequency_norm in [0, 1], and
\* the normalised hue is in [0, 1).
C8_Hue ==
    (mpc = "returned" /\ InUnit(args[2])) =>
        /\ 20 * Scale <= result[1].hue_degrees
        /\ result[1].hue_degrees <= 300 * Scale
        /\ result[1].hue = (result[1].hue_degrees * Scale) \div (360 * Scale)
        /\ 0 <= result[1].hue /\ result[1].hue < One
        /\ args[2] = 0 => result[1].hue_degrees = 300 * Scale
        /\ args[2] = One => result[1].hue_degrees = 20 * Scale
        /\ \A q \in {1} \cap DOMAIN prev :
              /\ (InUnit(prev[q].frequency_norm)
                    /\ prev[q].frequency_norm < args[2])
                 => prev[q].hue_degrees > result[1].hue_degrees
              /\ (InUnit(prev[q].frequency_norm)
                    /\ prev[q].frequency_norm > args[2])
                 => prev[q].hue_degrees < result[1].hue_degrees

C8_Witness ==
    /\ mpc = "returned"
    /\ prev # <<>>
    /\ InUnit(prev[1].frequency_norm)
    /\ 0 < prev[1].frequency_norm
    /\ prev[1].frequency_norm < args[2]
    /\ args[2] < One

\* C9: the file is opened only after generate_lut has returned all its
\* samples; while the samples are generated, and after a failure of the
\* generation, the file is as the run found it.
C9_GenerateBeforeOpen ==
    /\ (opens > 0 \/ isOpen) =>
          /\ pc \in {"write", "done", "failed"}
          /\ ~InRange(b, size)
          /\ size >= 2 => Len(samples) = Cube(size)
    /\ (pc = "gen" \/ error = "ZeroDivisionError") =>
          /\ opens = 0
          /\ file = atStart.content
          /\ fileExists = atStart.exists

C9_Witness ==
    /\ error = "ZeroDivisionError"
    /\ atStart.exists
    /\ fileExists
    /\ file = StaleFile

\* C10: generate_lut returns exactly for the sizes other than 1: with size
\* 1 it raises ZeroDivisionError before a sample is appended and the file is
\* not opened; with size <= 0 it returns the empty list.
C10_SizeOne ==
    /\ error = "ZeroDivisionError" =>
          (size = 1 /\ samples = <<>> /\ opens = 0 /\ ~isOpen)
    /\ LutReturned => size # 1
    /\ (LutReturned /\ size <= 0) => samples = <<>>
    /\ (pc = "gen" /\ size <= 1) => samples = <<>>
    /\ (pc = "gen" /\ size = 1) => (ENABLED GenZeroDivision /\ ~ENABLED GenReturn)
    /\ (pc = "gen" /\ size # 1) => ~ENABLED GenZeroDivision

C10_Witness ==
    /\ error = "ZeroDivisionError"
    /\ size = 1
    /\ opens = 0
    /\ entry = "write_cube_file"
    /\ file = atStart.content

====
